---- MODULE Spec2Model ----
(***************************************************************************)
(* Model of the AI Educational Chatbot orchestrator (src/main.py):         *)
(* AIEducationalChatbot.start_conversation, process_user_input,            *)
(* show_user_stats and end_conversation, together with the core            *)
(* collaborators it calls (SessionManager, TextAnalyzer,                   *)
(* IntelligenceAssessor, ResponseGenerator).  The collaborators' code is   *)
(* not part of src/, so their behaviour follows spec.md sections 3 and 4.  *)
(***************************************************************************)
EXTENDS Integers, Sequences, FiniteSets, TLC

\* ------------------------------------------------------------------ bounds
MaxTurns == 3
MaxSessions == 2
MaxClients == 2
MaxMutations == 3

\* --------------------------------------------------- spec-level constants
MAX_STEP == 2
DefaultLevel == 0
ScoreMax == 10
RecentTopics == 5

\* ------------------------------------------------------------- text model
\* A string is a sequence of one-character strings.
IsSpace(c) == c = " "

RECURSIVE LStrip(_)
LStrip(s) == IF s = <<>> THEN <<>>
             ELSE IF IsSpace(Head(s)) THEN LStrip(Tail(s)) ELSE s

RECURSIVE RStrip(_)
RStrip(s) == IF s = <<>> THEN <<>>
             ELSE IF IsSpace(s[Len(s)]) THEN RStrip(SubSeq(s, 1, Len(s) - 1)) ELSE s

\* str.strip()
Strip(s) == RStrip(LStrip(s))

LowerChar(c) ==
    CASE c = "Q" -> "q" [] c = "U" -> "u" [] c = "I" -> "i" [] c = "T" -> "t"
      [] c = "E" -> "e" [] c = "X" -> "x" [] c = "B" -> "b" [] c = "Y" -> "y"
      [] c = "H" -> "h" [] c = "L" -> "l" [] c = "P" -> "p" [] c = "S" -> "s"
      [] c = "A" -> "a" [] c = "R" -> "r"
      [] OTHER -> c

\* str.lower()
Lower(s) == [i \in 1..Len(s) |-> LowerChar(s[i])]

QuitWords == { <<"q","u","i","t">>, <<"e","x","i","t">>, <<"b","y","e">> }
HelpWord == <<"h","e","l","p">>
StatsWord == <<"s","t","a","t","s">>
ResetWord == <<"r","e","s","e","t">>

\* Lines the user can type at the prompt (raw, before strip()).
RawInputs ==
    { <<>>, <<" ">>, <<" "," ">>,
      <<"q","u","i","t">>, <<" ","E","x","i","t"," ">>, <<"B","Y","E">>,
      <<"h","e","l","p">>, <<"S","t","a","t","s">>, <<"r","e","s","e","t"," ">>,
      <<"h","i">>, <<"r","e","s","e","t"," ","i","t">> }

\* Names the user can type at "What's your name? " (raw).
RawNames == { <<>>, <<" ","A","d","a">> }

\* ------------------------------------------------- exact rational numbers
\* Scores and running averages are rationals <<numerator, denominator>> in
\* lowest terms, so that the incremental mean is computed as written.
Abs(x) == IF x < 0 THEN -x ELSE x

RECURSIVE GCD(_, _)
GCD(a, b) == IF b = 0 THEN a ELSE GCD(b, a % b)

Rat(n, d) == LET g == GCD(Abs(n), d) IN <<n \div g, d \div g>>
RatInt(k) == <<k, 1>>
RatAdd(p, q) == Rat(p[1] * q[2] + q[1] * p[2], p[2] * q[2])
RatSub(p, q) == Rat(p[1] * q[2] - q[1] * p[2], p[2] * q[2])
RatDivInt(p, n) == Rat(p[1], p[2] * n)

\* ------------------------------------------------------- FeatureExtractor
Clamp(x, lo, hi) == IF x < lo THEN lo ELSE IF x > hi THEN hi ELSE x

\* The bundles analyze_text returns for the texts of the model: both scores
\* clamped to [0, 10], the topic tags in order of appearance.
FeatureBundles ==
    { [vocabulary_score |-> 0, complexity_score |-> 0, topics |-> <<>>],
      [vocabulary_score |-> 4, complexity_score |-> 3, topics |-> <<"math">>],
      [vocabulary_score |-> ScoreMax, complexity_score |-> ScoreMax,
       topics |-> <<"physics", "math">>] }

NoBundle == [vocabulary_score |-> 0, complexity_score |-> 0, topics |-> <<>>]

\* --------------------------------------------------- IntelligenceEstimator
DefaultEstimate == [level |-> DefaultLevel, samples |-> 0, trend |-> 0]

\* Blended score: one scalar derived from vocabulary + complexity scores.
Blended(b) == (b.vocabulary_score + b.complexity_score) \div 2

\* Integer division truncating toward zero.
TruncDiv(a, n) == IF a < 0 THEN -((-a) \div n) ELSE a \div n

\* step: signed difference to the blended score, scaled by a learning rate
\* 1/(samples+1) that decreases as the sample count grows.
Step(b, prior) == TruncDiv(Blended(b) - prior.level, prior.samples + 1)

\* assess(bundle, prior)
Assess(b, prior) ==
    LET new_level == IF prior.samples = 0
                     THEN Blended(b)
                     ELSE prior.level + Clamp(Step(b, prior), -MAX_STEP, MAX_STEP)
        delta == new_level - prior.level
    IN [level |-> new_level,
        samples |-> prior.samples + 1,
        trend |-> TruncDiv(prior.trend + delta, 2)]

\* What assess_intelligence hands back to the orchestrator: the new estimate
\* together with the bundle's scores and topic tags.
IntelligenceData(b, prior) ==
    [estimate |-> Assess(b, prior),
     vocabulary_score |-> b.vocabulary_score,
     complexity_score |-> b.complexity_score,
     topics |-> b.topics]

NoData == [estimate |-> DefaultEstimate, vocabulary_score |-> 0,
           complexity_score |-> 0, topics |-> <<>>]

\* ------------------------------------------------------------ SessionStore
SessionIds == 1..MaxSessions
NoSession == [state |-> "Unknown"]

\* createOrResume for a name with no stored session: a fresh record.
NewRecord(id, name) ==
    [state |-> "Active", id |-> id, user_name |-> name,
     interaction_count |-> 0,
     estimate |-> DefaultEstimate,
     avg_vocabulary_score |-> RatInt(0),
     avg_complexity_score |-> RatInt(0),
     topics_discussed |-> <<>>,
     created_at |-> 0,
     last_active |-> 0]

\* avg_new = avg_old + (score - avg_old)/n
IncrementalMean(avg_old, score, n) ==
    RatAdd(avg_old, RatDivInt(RatSub(RatInt(score), avg_old), n))

\* applyIntelligenceUpdate: merge the estimate, update the running averages,
\* append the topics.
ApplyIntelligenceUpdate(rec, data) ==
    [rec EXCEPT
       !.estimate = data.estimate,
       !.avg_vocabulary_score =
           IncrementalMean(@, data.vocabulary_score, data.estimate.samples),
       !.avg_complexity_score =
           IncrementalMean(@, data.complexity_score, data.estimate.samples),
       !.topics_discussed = @ \o data.topics]

\* incrementInteraction
IncrementInteraction(rec) == [rec EXCEPT !.interaction_count = @ + 1]

\* reset: fields cleared, id and name retained.
ResetRecord(rec) ==
    [rec EXCEPT
       !.interaction_count = 0,
       !.estimate = DefaultEstimate,
       !.avg_vocabulary_score = RatInt(0),
       !.avg_complexity_score = RatInt(0),
       !.topics_discussed = <<>>]

\* endSession: flips to Ended; the record is kept.
EndRecord_Cleared(rec) == [ResetRecord(rec) EXCEPT !.state = "Ended"]
EndRecord(rec) == [rec EXCEPT !.state = "Ended"]

\* Every mutation stamps the record's last-active time.
Touch(rec, now) == [rec EXCEPT !.last_active = now]

\* load: a snapshot of the record.
Snapshot(rec) == rec

\* The persisted form of a record, written by endSession: a flat list of
\* numbers and strings, the rationals as numerator and denominator.
Persist_RoundedAverages(rec) ==
    [key |-> rec.user_name,
     ints |-> <<rec.id, rec.interaction_count, rec.estimate.level,
                rec.estimate.samples, rec.estimate.trend,
                rec.avg_vocabulary_score[1] \div rec.avg_vocabulary_score[2], 1,
                rec.avg_complexity_score[1] \div rec.avg_complexity_score[2], 1,
                rec.created_at, rec.last_active>>,
     strs |-> rec.topics_discussed]
Persist(rec) ==
    [key |-> rec.user_name,
     ints |-> <<rec.id, rec.interaction_count, rec.estimate.level,
                rec.estimate.samples, rec.estimate.trend,
                rec.avg_vocabulary_score[1], rec.avg_vocabulary_score[2],
                rec.avg_complexity_score[1], rec.avg_complexity_score[2],
                rec.created_at, rec.last_active>>,
     strs |-> rec.topics_discussed]

NoBlob == [key |-> <<>>, ints |-> <<>>, strs |-> <<>>]

\* createOrResume for a name with a persisted session: the record read back.
Resume(blob) ==
    [state |-> "Active", id |-> blob.ints[1], user_name |-> blob.key,
     interaction_count |-> blob.ints[2],
     estimate |-> [level |-> blob.ints[3], samples |-> blob.ints[4],
                   trend |-> blob.ints[5]],
     avg_vocabulary_score |-> Rat(blob.ints[6], blob.ints[7]),
     avg_complexity_score |-> Rat(blob.ints[8], blob.ints[9]),
     topics_discussed |-> blob.strs,
     created_at |-> blob.ints[10],
     last_active |-> blob.ints[11]]

\* Per-session lock: a mutation on a session may start when no other
\* client holds that session's lock.
LockFree_Global(held, sid) == \A i \in DOMAIN held : held[i] = 0
LockFree(held, sid) == held[sid] = 0

\* ---------------------------------------------------------- ResponsePolicy
\* Fixed thresholds between the registers.
TierBoundaries == <<3, 6, 8>>
Tiers == <<"novice", "intermediate", "advanced", "expert">>

\* A level on a boundary stays in the tier below it.
TierIndex_RoundUp(level) ==
    1 + Cardinality({i \in 1..Len(TierBoundaries) : level >= TierBoundaries[i]})
TierIndex(level) ==
    1 + Cardinality({i \in 1..Len(TierBoundaries) : level > TierBoundaries[i]})

Tier(level) == Tiers[TierIndex(level)]

\* First id the store has not handed out yet.
FreshId(st) == CHOOSE i \in SessionIds :
                  /\ st[i].state = "Unknown"
                  /\ \A j \in SessionIds : j < i => st[j].state # "Unknown"

\* ------------------------------------------------------------------- state
VARIABLES
    pc,                  \* position of start_conversation / process_user_input
    conversation_active, \* main.py:79
    user_name,           \* main.py:66
    session_id,          \* main.py:71
    store,               \* the SessionManager's records, by session id
    disk,                \* the persisted form of each session, by session id
    line,                \* main.py:84, the line read by input(), before strip()
    analysis_result,     \* main.py:124
    intelligence_data,   \* main.py:127
    response,            \* main.py:107, what the turn returned
    register,            \* the tier generate_response chose for the reply
    session_data,        \* main.py:72, 162: what get_session returned in the
                         \* latest step
    shown,               \* main.py:172: the recent topics printed in the
                         \* latest step
    lastCall,            \* the call made by the latest step
    lastOk,              \* whether that call returned (TRUE) or raised (FALSE)
    turns,               \* turns started so far
    turnTrace,           \* collaborator calls made by the current turn
    stagesDone,          \* turns since creation/reset whose four stages before
                         \* increment_interaction all returned
    turnsDone,           \* turns since creation/reset in which every call returned
    nUpdates,            \* intelligence updates applied since creation/reset
    sumVocabulary,       \* sum of the vocabulary scores of those updates
    sumComplexity,       \* sum of the complexity scores of those updates
    partialTurns,        \* turns since creation/reset in which generate_response
                         \* or increment_interaction raised after the update
    notFound,            \* a store call on session_id raised NotFound and the
                         \* session has not been created again since
    endCalls,            \* end_session calls that returned
    endIssued,           \* end_session calls made
    holder,              \* per session: the client holding its lock, 0 if none
    task,                \* per client: the store operation it is performing
    applied,             \* per session: mutations completed by the clients
    requests             \* mutations requested by the clients so far

vars == <<pc, conversation_active, user_name, session_id, store, disk, line,
          analysis_result, intelligence_data, response, register, session_data,
          shown, lastCall, lastOk, turns, turnTrace, stagesDone, turnsDone,
          nUpdates, sumVocabulary, sumComplexity, partialTurns, notFound,
          endCalls, endIssued, holder, task, applied, requests>>

turnVars == <<analysis_result, intelligence_data, response, register, turnTrace>>
histVars == <<stagesDone, turnsDone, nUpdates, sumVocabulary, sumComplexity,
              partialTurns>>
loopVars == <<conversation_active, user_name, session_id>>
lockVars == <<holder, task, applied, requests>>

\* Everything of the front-end; the concurrent clients of the store leave it
\* alone.
frontVars == <<pc, conversation_active, user_name, session_id, disk, line,
               analysis_result, intelligence_data, response, register,
               session_data, shown, lastCall, lastOk, turns, turnTrace,
               stagesDone, turnsDone, nUpdates, sumVocabulary, sumComplexity,
               partialTurns, notFound, endCalls, endIssued>>

StudentName == <<"S","t","u","d","e","n","t">>
FallbackResponse == "I'm having trouble understanding that. Could you rephrase your question?"

\* The record of the session the loop is working on.
Rec == store[session_id]

\* main.py:84: user_input = input(...).strip()
UserInput_Unstripped(raw) == raw
UserInput(raw) == Strip(raw)

\* main.py:91-101: the command an input line selects, "" for none.
Command_CaseSensitive(raw) ==
    LET w == UserInput(raw)
    IN IF w \in QuitWords THEN "quit"
       ELSE IF w = HelpWord THEN "help"
       ELSE IF w = StatsWord THEN "stats"
       ELSE IF w = ResetWord THEN "reset"
       ELSE ""
Command(raw) ==
    LET w == Lower(UserInput(raw))
    IN IF w \in QuitWords THEN "quit"
       ELSE IF w = HelpWord THEN "help"
       ELSE IF w = StatsWord THEN "stats"
       ELSE IF w = ResetWord THEN "reset"
       ELSE ""

\* main.py:81: while conversation_active - the next iteration, or the end of
\* the loop.
NextIteration_Forever(active) == "prompt"
NextIteration(active) == IF active THEN "prompt" ELSE "done"

\* main.py:124-140: the calls of process_user_input, in program order.
Pipeline_Swapped ==
    <<"analyze_text", "assess_intelligence", "generate_response",
      "update_session_intelligence", "increment_interaction">>
Pipeline ==
    <<"analyze_text", "assess_intelligence", "update_session_intelligence",
      "generate_response", "increment_interaction">>

\* The call that follows a call of the pipeline.
StageAfter(stage) ==
    LET k == CHOOSE i \in 1..Len(Pipeline) : Pipeline[i] = stage
    IN Pipeline[k + 1]

\* main.py:127-129: assess_intelligence is given the session id and works
\* from that session's current estimate.
PriorEstimate_Default == DefaultEstimate
PriorEstimate == store[session_id].estimate

\* main.py:171-172: session_data['topics_discussed'][-5:], printed only when
\* the list is not empty.
RecentShown_Oldest(topics) ==
    SubSeq(topics, 1, IF Len(topics) < RecentTopics THEN Len(topics) ELSE RecentTopics)
RecentShown(topics) ==
    SubSeq(topics,
           IF Len(topics) > RecentTopics THEN Len(topics) - RecentTopics + 1 ELSE 1,
           Len(topics))

\* A step that loads no session and prints no statistics.
NoStats ==
    /\ session_data' = NoSession
    /\ shown' = <<>>

\* show_user_stats, main.py:160-172, when get_session returns.
ShowUserStats ==
    /\ session_data' = Snapshot(Rec)
    /\ shown' = RecentShown(Rec.topics_discussed)

Clients == 1..MaxClients
IdleTask == [step |-> "idle", sid |-> 0, local |-> NoSession]

Init ==
    /\ pc = "name"
    /\ conversation_active = FALSE
    /\ user_name = <<>>
    /\ session_id = 0
    /\ store = [i \in SessionIds |-> NoSession]
    /\ disk = [i \in SessionIds |-> NoBlob]
    /\ line = <<>>
    /\ analysis_result = NoBundle
    /\ intelligence_data = NoData
    /\ response = "none"
    /\ register = "none"
    /\ session_data = NoSession
    /\ shown = <<>>
    /\ lastCall = "none"
    /\ lastOk = TRUE
    /\ turns = 0
    /\ turnTrace = <<>>
    /\ stagesDone = 0
    /\ turnsDone = 0
    /\ nUpdates = 0
    /\ sumVocabulary = 0
    /\ sumComplexity = 0
    /\ partialTurns = 0
    /\ notFound = FALSE
    /\ endCalls = 0
    /\ endIssued = 0
    /\ holder = [i \in SessionIds |-> 0]
    /\ task = [c \in Clients |-> IdleTask]
    /\ applied = [i \in SessionIds |-> 0]
    /\ requests = 0

\* main.py:66-79: read the name, create the session, load it, enter the loop.
StartConversation ==
    /\ pc = "name"
    /\ \E raw \in RawNames :
         LET name == IF Strip(raw) = <<>> THEN StudentName ELSE Strip(raw)
             id == FreshId(store)
         IN /\ user_name' = name
            /\ session_id' = id
            /\ store' = [store EXCEPT ![id] = NewRecord(id, name)]
            /\ session_data' = Snapshot(NewRecord(id, name))
    /\ shown' = <<>>
    /\ conversation_active' = TRUE
    /\ pc' = "prompt"
    /\ lastCall' = "get_session"
    /\ lastOk' = TRUE
    /\ UNCHANGED <<disk, line, turns, notFound, endCalls, endIssued>>
    /\ UNCHANGED turnVars
    /\ UNCHANGED histVars
    /\ UNCHANGED lockVars

\* main.py:84 when input() raises (EOFError on a closed stdin): the handler
\* of main.py:116 logs it and the loop goes round again.
InputFails_Propagates ==
    /\ pc = "prompt"
    /\ lastCall' = "input"
    /\ lastOk' = FALSE
    /\ pc' = "fatal"
    /\ NoStats
    /\ UNCHANGED <<store, disk, line, turns, notFound, endCalls, endIssued>>
    /\ UNCHANGED loopVars
    /\ UNCHANGED turnVars
    /\ UNCHANGED histVars
    /\ UNCHANGED lockVars
InputFails ==
    /\ pc = "prompt"
    /\ lastCall' = "input"
    /\ lastOk' = FALSE
    /\ pc' = NextIteration(conversation_active)
    /\ NoStats
    /\ UNCHANGED <<store, disk, line, turns, notFound, endCalls, endIssued>>
    /\ UNCHANGED loopVars
    /\ UNCHANGED turnVars
    /\ UNCHANGED histVars
    /\ UNCHANGED lockVars

\* main.py:84-88: empty input is re-prompted.
EmptyInput ==
    /\ pc = "prompt"
    /\ \E raw \in RawInputs :
         /\ UserInput(raw) = <<>>
         /\ line' = raw
    /\ lastCall' = "none"
    /\ lastOk' = TRUE
    /\ NoStats
    /\ UNCHANGED <<pc, store, disk, turns, notFound, endCalls, endIssued>>
    /\ UNCHANGED loopVars
    /\ UNCHANGED turnVars
    /\ UNCHANGED histVars
    /\ UNCHANGED lockVars

\* main.py:91-93: quit / exit / bye enters end_conversation.
QuitCommand ==
    /\ pc = "prompt"
    /\ \E raw \in RawInputs :
         /\ UserInput(raw) # <<>>
         /\ Command(raw) = "quit"
         /\ line' = raw
    /\ conversation_active' = FALSE
    /\ pc' = "end_conversation"
    /\ lastCall' = "end_conversation"
    /\ lastOk' = TRUE
    /\ NoStats
    /\ UNCHANGED <<user_name, session_id, store, disk, turns, notFound, endCalls,
                   endIssued>>
    /\ UNCHANGED turnVars
    /\ UNCHANGED histVars
    /\ UNCHANGED lockVars

\* main.py:180: end_session inside end_conversation; an exception goes to
\* the handler of main.py:116 and from there to the loop test.
EndConversation ==
    /\ pc = "end_conversation"
    /\ lastCall' = "end_session"
    /\ endIssued' = endIssued + 1
    /\ \E ok \in BOOLEAN :
         /\ lastOk' = ok
         /\ IF ok
            THEN /\ store' = [store EXCEPT ![session_id] = EndRecord(@)]
                 /\ disk' = [disk EXCEPT ![session_id] = Persist(EndRecord(Rec))]
                 /\ endCalls' = endCalls + 1
                 /\ pc' = "final_stats"
                 /\ UNCHANGED notFound
            ELSE /\ notFound' = TRUE
                 /\ pc' = NextIteration(conversation_active)
                 /\ UNCHANGED <<store, disk, endCalls>>
    /\ NoStats
    /\ UNCHANGED <<line, turns>>
    /\ UNCHANGED loopVars
    /\ UNCHANGED turnVars
    /\ UNCHANGED histVars
    /\ UNCHANGED lockVars

\* main.py:184 then 94: the final summary reads the session; break, or the
\* handler of main.py:116 followed by the loop test.
FinalStats ==
    /\ pc = "final_stats"
    /\ lastCall' = "get_session"
    /\ \E ok \in BOOLEAN :
         /\ lastOk' = ok
         /\ IF ok
            THEN /\ pc' = "done"
                 /\ ShowUserStats
                 /\ UNCHANGED notFound
            ELSE /\ notFound' = TRUE
                 /\ NoStats
                 /\ pc' = NextIteration(conversation_active)
    /\ UNCHANGED <<store, disk, line, turns, endCalls, endIssued>>
    /\ UNCHANGED loopVars
    /\ UNCHANGED turnVars
    /\ UNCHANGED histVars
    /\ UNCHANGED lockVars

\* main.py:95-97
HelpCommand ==
    /\ pc = "prompt"
    /\ \E raw \in RawInputs :
         /\ UserInput(raw) # <<>>
         /\ Command(raw) = "help"
         /\ line' = raw
    /\ lastCall' = "show_help"
    /\ lastOk' = TRUE
    /\ NoStats
    /\ UNCHANGED <<pc, store, disk, turns, notFound, endCalls, endIssued>>
    /\ UNCHANGED loopVars
    /\ UNCHANGED turnVars
    /\ UNCHANGED histVars
    /\ UNCHANGED lockVars

\* main.py:98-100 and 160-172
StatsCommand ==
    /\ pc = "prompt"
    /\ \E raw \in RawInputs :
         /\ UserInput(raw) # <<>>
         /\ Command(raw) = "stats"
         /\ line' = raw
    /\ lastCall' = "get_session"
    /\ \E ok \in BOOLEAN :
         /\ lastOk' = ok
         /\ notFound' = (notFound \/ ~ok)
         /\ IF ok THEN ShowUserStats ELSE NoStats
    /\ UNCHANGED <<pc, store, disk, turns, endCalls, endIssued>>
    /\ UNCHANGED loopVars
    /\ UNCHANGED turnVars
    /\ UNCHANGED histVars
    /\ UNCHANGED lockVars

\* main.py:101-104, with a reset that starts a new session instead.
ResetCommand_NewSession ==
    /\ pc = "prompt"
    /\ \E raw \in RawInputs :
         /\ UserInput(raw) # <<>>
         /\ Command(raw) = "reset"
         /\ line' = raw
    /\ \E i \in SessionIds :
         /\ store[i].state = "Unknown"
         /\ session_id' = i
         /\ store' = [store EXCEPT ![i] = NewRecord(i, user_name)]
    /\ lastCall' = "reset_session"
    /\ lastOk' = TRUE
    /\ stagesDone' = 0
    /\ turnsDone' = 0
    /\ nUpdates' = 0
    /\ sumVocabulary' = 0
    /\ sumComplexity' = 0
    /\ partialTurns' = 0
    /\ NoStats
    /\ UNCHANGED <<pc, disk, turns, endCalls, endIssued, notFound,
                   conversation_active, user_name>>
    /\ UNCHANGED turnVars
    /\ UNCHANGED lockVars

\* main.py:101-104
ResetCommand ==
    /\ pc = "prompt"
    /\ \E raw \in RawInputs :
         /\ UserInput(raw) # <<>>
         /\ Command(raw) = "reset"
         /\ line' = raw
    /\ lastCall' = "reset_session"
    /\ \E ok \in BOOLEAN :
         /\ lastOk' = ok
         /\ IF ok
            THEN /\ store' = [store EXCEPT ![session_id] = ResetRecord(@)]
                 /\ stagesDone' = 0
                 /\ turnsDone' = 0
                 /\ nUpdates' = 0
                 /\ sumVocabulary' = 0
                 /\ sumComplexity' = 0
                 /\ partialTurns' = 0
                 /\ UNCHANGED notFound
            ELSE /\ notFound' = TRUE
                 /\ UNCHANGED store
                 /\ UNCHANGED histVars
    /\ NoStats
    /\ UNCHANGED <<pc, disk, turns, endCalls, endIssued>>
    /\ UNCHANGED loopVars
    /\ UNCHANGED turnVars
    /\ UNCHANGED lockVars

\* main.py:106-107: any other input is handed to process_user_input.
BeginTurn ==
    /\ pc = "prompt"
    /\ turns < MaxTurns
    /\ \E raw \in RawInputs :
         /\ UserInput(raw) # <<>>
         /\ Command(raw) = ""
         /\ line' = raw
    /\ pc' = Pipeline[1]
    /\ turns' = turns + 1
    /\ turnTrace' = <<>>
    /\ response' = "none"
    /\ lastCall' = "process_user_input"
    /\ lastOk' = TRUE
    /\ NoStats
    /\ UNCHANGED <<store, disk, analysis_result, intelligence_data, register,
                   notFound, endCalls, endIssued>>
    /\ UNCHANGED loopVars
    /\ UNCHANGED histVars
    /\ UNCHANGED lockVars

\* process_user_input returns: its locals go out of scope.
ReturnToLoop ==
    /\ analysis_result' = NoBundle
    /\ intelligence_data' = NoData
    /\ register' = "none"
    /\ pc' = "prompt"

\* main.py:144-146 then 110: a stage raised; the fallback string is returned
\* and displayed.
StageFailed_Reraised ==
    /\ lastOk' = FALSE
    /\ response' = "none"
    /\ ReturnToLoop
StageFailed ==
    /\ lastOk' = FALSE
    /\ response' = FallbackResponse
    /\ ReturnToLoop

\* What every step of process_user_input leaves alone.
TurnFrame ==
    /\ NoStats
    /\ UNCHANGED <<disk, line, turns, endCalls, endIssued>>
    /\ UNCHANGED loopVars
    /\ UNCHANGED lockVars

\* main.py:124
AnalyzeText ==
    /\ pc = "analyze_text"
    /\ lastCall' = "analyze_text"
    /\ turnTrace' = Append(turnTrace, "analyze_text")
    /\ \/ /\ \E b \in FeatureBundles : analysis_result' = b
          /\ lastOk' = TRUE
          /\ pc' = StageAfter("analyze_text")
          /\ UNCHANGED <<response, register, intelligence_data>>
       \/ StageFailed
    /\ UNCHANGED <<store, notFound>>
    /\ UNCHANGED histVars
    /\ TurnFrame

\* main.py:127-129
AssessIntelligence ==
    /\ pc = "assess_intelligence"
    /\ lastCall' = "assess_intelligence"
    /\ turnTrace' = Append(turnTrace, "assess_intelligence")
    /\ \/ /\ intelligence_data' = IntelligenceData(analysis_result, PriorEstimate)
          /\ lastOk' = TRUE
          /\ pc' = StageAfter("assess_intelligence")
          /\ UNCHANGED <<response, register, analysis_result>>
       \/ StageFailed
    /\ UNCHANGED <<store, notFound>>
    /\ UNCHANGED histVars
    /\ TurnFrame

\* main.py:132
UpdateSessionIntelligence ==
    /\ pc = "update_session_intelligence"
    /\ lastCall' = "update_session_intelligence"
    /\ turnTrace' = Append(turnTrace, "update_session_intelligence")
    /\ \/ /\ store' = [store EXCEPT
                         ![session_id] =
                             Touch(ApplyIntelligenceUpdate(@, intelligence_data), turns)]
          /\ nUpdates' = nUpdates + 1
          /\ sumVocabulary' = sumVocabulary + intelligence_data.vocabulary_score
          /\ sumComplexity' = sumComplexity + intelligence_data.complexity_score
          /\ lastOk' = TRUE
          /\ pc' = StageAfter("update_session_intelligence")
          /\ UNCHANGED <<response, register, analysis_result, intelligence_data,
                         notFound, stagesDone, turnsDone, partialTurns>>
       \/ /\ StageFailed
          /\ notFound' = TRUE
          /\ UNCHANGED store
          /\ UNCHANGED histVars
    /\ TurnFrame

\* main.py:135-137
GenerateResponse ==
    /\ pc = "generate_response"
    /\ lastCall' = "generate_response"
    /\ turnTrace' = Append(turnTrace, "generate_response")
    /\ \/ /\ response' = "reply"
          /\ register' = Tier(intelligence_data.estimate.level)
          /\ stagesDone' = stagesDone + 1
          /\ lastOk' = TRUE
          /\ pc' = StageAfter("generate_response")
          /\ UNCHANGED <<analysis_result, intelligence_data, partialTurns>>
       \/ /\ StageFailed
          /\ partialTurns' = partialTurns + 1
          /\ UNCHANGED stagesDone
    /\ UNCHANGED <<store, notFound, turnsDone, nUpdates, sumVocabulary,
                   sumComplexity>>
    /\ TurnFrame

\* main.py:140-142 then 110, with the count incremented a second time.
IncrementInteractionCall_Twice ==
    /\ pc = "increment_interaction"
    /\ lastCall' = "increment_interaction"
    /\ turnTrace' = Append(turnTrace, "increment_interaction")
    /\ \/ /\ store' = [store EXCEPT
                         ![session_id] =
                             Touch(IncrementInteraction(IncrementInteraction(@)), turns)]
          /\ turnsDone' = turnsDone + 1
          /\ lastOk' = TRUE
          /\ ReturnToLoop
          /\ UNCHANGED <<response, notFound, partialTurns>>
       \/ /\ StageFailed
          /\ notFound' = TRUE
          /\ partialTurns' = partialTurns + 1
          /\ UNCHANGED <<store, turnsDone>>
    /\ UNCHANGED <<stagesDone, nUpdates, sumVocabulary, sumComplexity>>
    /\ TurnFrame

\* main.py:140-142 then 110
IncrementInteractionCall ==
    /\ pc = "increment_interaction"
    /\ lastCall' = "increment_interaction"
    /\ turnTrace' = Append(turnTrace, "increment_interaction")
    /\ \/ /\ store' = [store EXCEPT
                         ![session_id] = Touch(IncrementInteraction(@), turns)]
          /\ turnsDone' = turnsDone + 1
          /\ lastOk' = TRUE
          /\ ReturnToLoop
          /\ UNCHANGED <<response, notFound, partialTurns>>
       \/ /\ StageFailed
          /\ notFound' = TRUE
          /\ partialTurns' = partialTurns + 1
          /\ UNCHANGED <<store, turnsDone>>
    /\ UNCHANGED <<stagesDone, nUpdates, sumVocabulary, sumComplexity>>
    /\ TurnFrame

\* main.py:82-111: the positions inside the try block of the loop.
LoopBody == {"prompt", "analyze_text", "assess_intelligence",
             "update_session_intelligence", "generate_response",
             "increment_interaction", "end_conversation", "final_stats"}

\* main.py:112-115: Ctrl-C anywhere inside the try block; end_session, break.
\* If end_session raises here, the exception leaves start_conversation.
KeyboardInterrupt ==
    /\ pc \in LoopBody
    /\ lastCall' = "end_session"
    /\ endIssued' = endIssued + 1
    /\ \E ok \in BOOLEAN :
         /\ lastOk' = ok
         /\ IF ok
            THEN /\ store' = [store EXCEPT ![session_id] = EndRecord(@)]
                 /\ disk' = [disk EXCEPT ![session_id] = Persist(EndRecord(Rec))]
                 /\ endCalls' = endCalls + 1
                 /\ pc' = "done"
                 /\ UNCHANGED notFound
            ELSE /\ notFound' = TRUE
                 /\ pc' = "fatal"
                 /\ UNCHANGED <<store, disk, endCalls>>
    /\ NoStats
    /\ UNCHANGED <<line, turns>>
    /\ UNCHANGED loopVars
    /\ UNCHANGED turnVars
    /\ UNCHANGED histVars
    /\ UNCHANGED lockVars

Next ==
    \/ StartConversation
    \/ InputFails
    \/ EmptyInput
    \/ QuitCommand
    \/ EndConversation
    \/ FinalStats
    \/ HelpCommand
    \/ StatsCommand
    \/ ResetCommand
    \/ BeginTurn
    \/ AnalyzeText
    \/ AssessIntelligence
    \/ UpdateSessionIntelligence
    \/ GenerateResponse
    \/ IncrementInteractionCall
    \/ KeyboardInterrupt

Spec == Init /\ [][Next]_vars

\* The loop keeps executing: a call that has been reached is made.
FairSpec == Spec /\ WF_vars(EndConversation) /\ WF_vars(FinalStats)

\* ------------------------------------------ concurrent clients of the store
\* Several front-ends share one SessionStore.  A mutation takes the lock of
\* its session, reads the record, writes the changed record and releases
\* the lock; a load takes no lock.

\* The store serving two or more sessions that already exist.
LockInit ==
    /\ pc = "name"
    /\ conversation_active = FALSE
    /\ user_name = <<>>
    /\ session_id = 0
    /\ store = [i \in SessionIds |-> NewRecord(i, StudentName)]
    /\ disk = [i \in SessionIds |-> NoBlob]
    /\ line = <<>>
    /\ analysis_result = NoBundle
    /\ intelligence_data = NoData
    /\ response = "none"
    /\ register = "none"
    /\ session_data = NoSession
    /\ shown = <<>>
    /\ lastCall = "none"
    /\ lastOk = TRUE
    /\ turns = 0
    /\ turnTrace = <<>>
    /\ stagesDone = 0
    /\ turnsDone = 0
    /\ nUpdates = 0
    /\ sumVocabulary = 0
    /\ sumComplexity = 0
    /\ partialTurns = 0
    /\ notFound = FALSE
    /\ endCalls = 0
    /\ endIssued = 0
    /\ holder = [i \in SessionIds |-> 0]
    /\ task = [c \in Clients |-> IdleTask]
    /\ applied = [i \in SessionIds |-> 0]
    /\ requests = 0

\* A client asks for a mutation (incrementInteraction) on a session.
RequestMutation(c, sid) ==
    /\ task[c].step = "idle"
    /\ requests < MaxMutations
    /\ requests' = requests + 1
    /\ task' = [task EXCEPT ![c] = [step |-> "waiting", sid |-> sid,
                                    local |-> NoSession]]
    /\ UNCHANGED <<store, holder, applied>>
    /\ UNCHANGED frontVars

\* The client takes the session's lock.
AcquireLock(c) ==
    /\ task[c].step = "waiting"
    /\ LockFree(holder, task[c].sid)
    /\ holder' = [holder EXCEPT ![task[c].sid] = c]
    /\ task' = [task EXCEPT ![c].step = "read"]
    /\ UNCHANGED <<store, applied, requests>>
    /\ UNCHANGED frontVars

\* Under the lock: read the record.
ReadRecord(c) ==
    /\ task[c].step = "read"
    /\ task' = [task EXCEPT ![c].step = "write",
                            ![c].local = store[task[c].sid]]
    /\ UNCHANGED <<store, holder, applied, requests>>
    /\ UNCHANGED frontVars

\* Under the lock: write the changed record back and release the lock.
WriteRecord(c) ==
    /\ task[c].step = "write"
    /\ store' = [store EXCEPT ![task[c].sid] = IncrementInteraction(task[c].local)]
    /\ applied' = [applied EXCEPT ![task[c].sid] = @ + 1]
    /\ holder' = [holder EXCEPT ![task[c].sid] = 0]
    /\ task' = [task EXCEPT ![c] = IdleTask]
    /\ UNCHANGED requests
    /\ UNCHANGED frontVars

\* load: a snapshot, served without the lock.
LoadSession(c, sid) ==
    /\ task[c].step = "idle"
    /\ task' = [task EXCEPT ![c].local = Snapshot(store[sid])]
    /\ UNCHANGED <<store, holder, applied, requests>>
    /\ UNCHANGED frontVars

LockNext ==
    \/ \E c \in Clients, sid \in SessionIds : RequestMutation(c, sid)
    \/ \E c \in Clients : AcquireLock(c)
    \/ \E c \in Clients : ReadRecord(c)
    \/ \E c \in Clients : WriteRecord(c)
    \/ \E c \in Clients, sid \in SessionIds : LoadSession(c, sid)

LockSpec == LockInit /\ [][LockNext]_vars

\* ================================================================ properties
Created == session_id # 0

IsBlank(s) == \A i \in 1..Len(s) : s[i] = " "

IsPrefix(s, t) == Len(s) <= Len(t) /\ SubSeq(t, 1, Len(s)) = s

\* The step reads a line at the prompt: input() returned, no Ctrl-C.
ReadsLine == pc = "prompt" /\ lastCall' \notin {"input", "end_session"}

StoreMutations == {"update_session_intelligence", "increment_interaction",
                   "reset_session"}

\* C1 (as stated): between turns, interaction_count equals the number of
\* turns since creation or the last reset in which analyze_text,
\* assess_intelligence, update_session_intelligence and generate_response
\* all completed.
C1_CountEqualsFourStageTurns ==
    pc = "prompt" => Rec.interaction_count = stagesDone

\* C1 (amended): interaction_count equals the number of turns since creation
\* or the last reset in which every call of the turn, increment_interaction
\* included, completed; a turn that failed and is retried therefore adds at
\* most 1 in total.
C1_CountEqualsCompletedTurns ==
    Created => /\ Rec.interaction_count = turnsDone
               /\ Rec.interaction_count <= stagesDone
               /\ Rec.interaction_count <= turns

\* C1 witness: a turn failed (in increment_interaction, after the four stages)
\* and the retry completed, and the count is 1.
C1_Witness ==
    /\ pc = "prompt"
    /\ turns = 2
    /\ stagesDone = 2
    /\ turnsDone = 1
    /\ Rec.interaction_count = 1
    /\ response = "reply"

\* The order the claim gives for the steps of a turn.
ClaimedOrder ==
    <<"get_session", "analyze_text", "assess_intelligence",
      "update_session_intelligence", "generate_response",
      "increment_interaction">>

\* The order of the calls in process_user_input.
CallOrder ==
    <<"analyze_text", "assess_intelligence", "update_session_intelligence",
      "generate_response", "increment_interaction">>

\* A turn has been processed and the loop is back at the prompt.
TurnOver == pc = "prompt" /\ turnTrace # <<>>

\* C2 (as stated): every turn performs, in this order and with none skipped,
\* the session load, analyze_text, assess_intelligence,
\* update_session_intelligence, generate_response, increment_interaction.
C2_EveryTurnRunsClaimedOrder ==
    TurnOver => turnTrace = ClaimedOrder

\* C2 (amended): the calls of a turn are analyze_text, assess_intelligence,
\* update_session_intelligence, generate_response, increment_interaction, in
\* this order and with none reordered or skipped up to the first call that
\* raises, where the turn stops; a turn in which no call raises makes all
\* five. process_user_input makes no separate session load.
C2_TurnRunsPrefixOfCallOrder ==
    /\ IsPrefix(turnTrace, CallOrder)
    /\ pc \in {CallOrder[i] : i \in 1..Len(CallOrder)}
          => pc = CallOrder[Len(turnTrace) + 1]
    /\ (TurnOver /\ response = "reply") => turnTrace = CallOrder
    /\ (TurnOver /\ turnTrace # CallOrder) => response = FallbackResponse

\* C2 witness: a turn in which no call raised has made all five calls.
C2_Witness ==
    /\ TurnOver
    /\ response = "reply"
    /\ turnTrace = CallOrder
    /\ Rec.interaction_count = 1

\* C3: once end_session has returned for the session, the session stays
\* Ended and no update_session_intelligence, increment_interaction or
\* reset_session is issued on it, on any path through the loop.
C3_NoMutationAfterEnd ==
    [][(Created /\ Rec.state = "Ended")
         => /\ session_id' = session_id
            /\ store'[session_id'].state = "Ended"
            /\ lastCall' \notin StoreMutations
            /\ pc' \notin {"prompt"} \cup {CallOrder[i] : i \in 1..Len(CallOrder)}]_vars

\* C3 witness: the session was ended by quit, the final summary raised, the
\* handler ran and the loop test ended the loop.
C3_Witness ==
    /\ pc = "done"
    /\ Rec.state = "Ended"
    /\ lastCall = "get_session"
    /\ ~lastOk
    /\ Rec.interaction_count > 0

\* C4: a reset that returns leaves a record with interaction_count 0, no
\* topics and the default estimate, under the same id and user name; a
\* second reset would change nothing; and the loop keeps the session id, so
\* the next turn is processed under it.
C4_ResetClearsAndKeepsIdentity ==
    [][Created
         => /\ session_id' = session_id
            /\ (lastCall' = "reset_session" /\ lastOk')
                 => /\ store'[session_id].state = "Active"
                    /\ store'[session_id].interaction_count = 0
                    /\ store'[session_id].topics_discussed = <<>>
                    /\ store'[session_id].estimate = DefaultEstimate
                    /\ store'[session_id].estimate.samples = 0
                    /\ store'[session_id].id = Rec.id
                    /\ store'[session_id].user_name = Rec.user_name
                    /\ store'[session_id].id = session_id
                    /\ ResetRecord(store'[session_id]) = store'[session_id]]_vars

\* C4 witness: a reset has just returned on a session whose last turn had
\* completed, so the record it cleared had a count, an estimate and averages.
C4_Witness ==
    /\ pc = "prompt"
    /\ lastCall = "reset_session"
    /\ lastOk
    /\ response = "reply"
    /\ turnTrace = CallOrder
    /\ turns = 2
    /\ Rec.interaction_count = 0
    /\ Rec.estimate = DefaultEstimate

\* C5: after a store call on the session id raised NotFound, no further turn
\* is processed before the session is created again.
C5_RecreateBeforeNextTurn ==
    [][notFound => lastCall' # "process_user_input"]_vars

\* C6: a line that is empty or only whitespace is re-prompted: the step makes
\* no collaborator call and leaves the store unchanged.
C6_BlankInputRejected ==
    [][(ReadsLine /\ IsBlank(line'))
         => /\ pc' = "prompt"
            /\ lastCall' = "none"
            /\ store' = store
            /\ turnTrace' = turnTrace
            /\ turns' = turns]_vars

\* C6 witness: a whitespace-only line was read on a session with history and
\* re-prompted.
C6_Witness ==
    /\ pc = "prompt"
    /\ line = <<" ", " ">>
    /\ lastCall = "none"
    /\ Rec.interaction_count = 1

\* The level assess_intelligence returned, against the level it started from.
LevelMove == Abs(intelligence_data.estimate.level - Rec.estimate.level)

C8_SampleCountGrowsByOne ==
    [][Created
         => /\ (lastCall' = "assess_intelligence" /\ lastOk')
                 => intelligence_data'.estimate.samples = Rec.estimate.samples + 1
            /\ (lastCall' = "update_session_intelligence" /\ lastOk')
                 => store'[session_id].estimate.samples = Rec.estimate.samples + 1
            /\ lastCall' \in {CallOrder[i] : i \in 1..Len(CallOrder)}
                                \cup {"process_user_input"}
                 => store'[session_id].estimate.samples >= Rec.estimate.samples]_vars

\* C8 witness: the third assessment of a session returned sample count 3.
C8_Witness ==
    /\ pc = "update_session_intelligence"
    /\ Rec.estimate.samples = 2
    /\ intelligence_data.estimate.samples = 3

\* avg = sum / n, on exact rationals.
IsMean(avg, sum, n) == IF n = 0 THEN avg = RatInt(0) ELSE avg[1] * n = sum * avg[2]

\* C9: after N intelligence updates since creation or the last reset, updates
\* of turns whose response stage failed included, the stored averages of the
\* vocabulary and complexity scores are the arithmetic means of the N scores.
C9_RunningAverageIsMean ==
    Created
      => /\ IsMean(Rec.avg_vocabulary_score, sumVocabulary, nUpdates)
         /\ IsMean(Rec.avg_complexity_score, sumComplexity, nUpdates)
         /\ Rec.estimate.samples = nUpdates

\* C9 witness: three updates, one of them in a turn whose response stage
\* failed, with a mean that is not a whole number.
C9_Witness ==
    /\ pc = "prompt"
    /\ nUpdates = 3
    /\ stagesDone = 2
    /\ Rec.avg_vocabulary_score = <<14, 3>>
    /\ Rec.avg_complexity_score[2] = 3

\* C10 (as stated): interaction_count never decreases and every change is an
\* increase by exactly 1, across turns, failed turns and every command.
C10_CountOnlyStepsUp ==
    [][(Created /\ store'[session_id].interaction_count # Rec.interaction_count)
         => store'[session_id].interaction_count = Rec.interaction_count + 1]_vars

\* C10 (amended): across turns, failed turns and every command other than
\* reset, interaction_count never decreases and every change is an increase
\* by exactly 1; a reset sets it to 0.
C10_CountStepsUpOrResets ==
    [][(Created /\ store'[session_id].interaction_count # Rec.interaction_count)
         => \/ /\ lastCall' = "increment_interaction"
               /\ store'[session_id].interaction_count = Rec.interaction_count + 1
            \/ /\ lastCall' = "reset_session"
               /\ store'[session_id].interaction_count = 0]_vars

\* C10 witness: the count has reached 2 and a failed turn has left it there.
C10_Witness ==
    /\ pc = "prompt"
    /\ Rec.interaction_count = 2
    /\ turns = 3
    /\ response = FallbackResponse

\* The clients inside a mutation of session sid (between acquire and release).
Mutating(sid) == {c \in Clients : task[c].step \in {"read", "write"} /\ task[c].sid = sid}

\* C11: mutations on one session id are mutually exclusive and none is
\* lost, and a mutation in progress on one session never blocks a mutation
\* or a load on another session.
C11_PerSessionExclusion ==
    /\ \A sid \in SessionIds :
         /\ Cardinality(Mutating(sid)) <= 1
         /\ store[sid].interaction_count = applied[sid]
         /\ holder[sid] # 0 <=> Mutating(sid) # {}
    /\ \A c \in Clients :
         /\ (task[c].step = "waiting" /\ Mutating(task[c].sid) = {})
               => ENABLED AcquireLock(c)
         /\ task[c].step = "idle"
               => \A sid \in SessionIds : ENABLED LoadSession(c, sid)

\* C11 witness: two clients are inside mutations of two different sessions
\* at once, after a mutation of session 1 has been applied.
C11_Witness ==
    /\ task[1].step = "write" /\ task[1].sid = 2
    /\ task[2].step = "write" /\ task[2].sid = 1
    /\ applied[1] = 1
    /\ store[1].interaction_count = 1

Levels == 0..ScoreMax

\* C12: an estimate level exactly on a tier boundary resolves to the tier
\* below that boundary, and the mapping from level to tier never decreases
\* as the level grows.
C12_ConservativeTier ==
    /\ pc = "increment_interaction"
         => /\ register \in {Tiers[k] : k \in 1..Len(Tiers)}
            /\ \A k \in 1..Len(TierBoundaries) :
                 /\ intelligence_data.estimate.level = TierBoundaries[k]
                      => register = Tiers[k]
                 /\ intelligence_data.estimate.level > TierBoundaries[k]
                      => register \in {Tiers[j] : j \in (k + 1)..Len(Tiers)}
                 /\ intelligence_data.estimate.level < TierBoundaries[k]
                      => register \in {Tiers[j] : j \in 1..k}
    /\ \A a \in Levels, b \in Levels : a <= b => TierIndex(a) <= TierIndex(b)
    /\ \A k \in 1..Len(TierBoundaries) : TierIndex(TierBoundaries[k]) = k

\* C12 witness: a reply was generated for a level exactly on the second
\* boundary and used the tier below it.
C12_Witness ==
    /\ pc = "increment_interaction"
    /\ intelligence_data.estimate.level = TierBoundaries[2]
    /\ register = "intermediate"

Min(a, b) == IF a < b THEN a ELSE b

\* The last n entries of a list, in their order.
LastEntries(seq, n) == [i \in 1..Min(n, Len(seq)) |-> seq[Len(seq) - Min(n, Len(seq)) + i]]

\* C14: the topics list is append-only and most-recent-last: an update
\* leaves the previous list as a prefix of the new one, followed by the
\* turn's topics (duplicates kept), and the recent topics shown by stats are
\* the last min(5, length) entries in their stored order.
C14_TopicsAppendOnly ==
    [][Created
         => /\ lastCall' # "reset_session"
                 => IsPrefix(Rec.topics_discussed, store'[session_id].topics_discussed)
            /\ (lastCall' = "update_session_intelligence" /\ lastOk')
                 => store'[session_id].topics_discussed
                      = Rec.topics_discussed \o intelligence_data.topics
            /\ (lastCall' = "get_session" /\ lastOk')
                 => /\ shown' = LastEntries(store'[session_id].topics_discussed, 5)
                    /\ Len(shown') = Min(5, Len(store'[session_id].topics_discussed))]_vars

\* C14 witness: stats shown for a session with six topics, duplicates among
\* them: the five most recent, oldest of them first.
C14_Witness ==
    /\ pc = "prompt"
    /\ lastCall = "get_session"
    /\ lastOk
    /\ Rec.topics_discussed = <<"physics", "math", "physics", "math", "physics", "math">>
    /\ shown = <<"math", "physics", "math", "physics", "math">>

Stages == {CallOrder[i] : i \in 1..Len(CallOrder)}

\* C15: when a stage of a turn raises, no later stage of the turn runs, the
\* fallback string is returned to the loop, which goes on, and the raising
\* call changes nothing in the store; a turn changes the store in no other
\* step than a returning update_session_intelligence or
\* increment_interaction, so a failure before the update leaves the record
\* as the turn found it.
C15_TurnIsTotal ==
    [][(pc \in Stages /\ lastCall' \in Stages)
         => /\ lastCall' = pc
            /\ ~lastOk'
                 => /\ pc' = "prompt"
                    /\ response' = FallbackResponse
                    /\ turnTrace' = Append(turnTrace, pc)
                    /\ store' = store
                    /\ session_id' = session_id
                    /\ conversation_active' = conversation_active
            /\ pc \in {"analyze_text", "assess_intelligence"} => store' = store
            /\ lastOk' => pc' \in Stages \cup {"prompt"}]_vars

\* C15 witness: assess_intelligence raised in the second turn; the fallback
\* was returned and the record of the first turn is still there.
C15_Witness ==
    /\ pc = "prompt"
    /\ response = FallbackResponse
    /\ lastCall = "assess_intelligence"
    /\ ~lastOk
    /\ turnTrace = <<"analyze_text", "assess_intelligence">>
    /\ turns = 2
    /\ Rec.interaction_count = 1
    /\ Rec.estimate.samples = 1
    /\ Rec.last_active = 1

CommandWords == QuitWords \cup {HelpWord, StatsWord, ResetWord}

\* C17: the commands are quit, exit, bye, help, stats and reset, matched on
\* the stripped, lower-cased line; a command starts no turn, help and stats
\* leave the store unchanged, and any other non-empty line starts exactly
\* one turn.
C17_ClosedCommandSet ==
    [][(ReadsLine /\ ~IsBlank(line'))
         => LET w == Lower(Strip(line'))
            IN /\ w \in CommandWords
                    => /\ pc' \notin Stages
                       /\ turns' = turns
                       /\ turnTrace' = turnTrace
               /\ w \in QuitWords
                    => /\ pc' = "end_conversation"
                       /\ store' = store
               /\ w = HelpWord
                    => /\ pc' = "prompt"
                       /\ lastCall' = "show_help"
                       /\ store' = store
               /\ w = StatsWord
                    => /\ pc' = "prompt"
                       /\ lastCall' = "get_session"
                       /\ store' = store
               /\ w = ResetWord
                    => /\ pc' = "prompt"
                       /\ lastCall' = "reset_session"
               /\ w \notin CommandWords
                    => /\ pc' = "analyze_text"
                       /\ lastCall' = "process_user_input"
                       /\ turns' = turns + 1
                       /\ turnTrace' = <<>>
                       /\ store' = store]_vars

\* C17 witness: "reset it" is not a command and has started the second
\* turn of a session that "Stats" and " Exit " would have served as commands.
C17_Witness ==
    /\ pc = "analyze_text"
    /\ line = <<"r","e","s","e","t"," ","i","t">>
    /\ turns = 2
    /\ turnTrace = <<>>
    /\ Rec.interaction_count = 1

LoopExited == pc \in {"done", "fatal"}

\* C18: whenever the conversation loop has exited (by quit, exit or bye, by
\* a KeyboardInterrupt anywhere in the loop body, or by an exception while
\* ending), end_session has been called exactly once for the session.
C18_EndSessionCalledOnce ==
    LoopExited => endIssued = 1

\* A turn has applied its intelligence update and process_user_input has not
\* returned: the turn is at a later stage, or a KeyboardInterrupt cut it off.
UpdateOutstanding ==
    /\ intelligence_data # NoData
    /\ \E i \in 1..Len(turnTrace) : turnTrace[i] = "update_session_intelligence"

SampleGap == Rec.estimate.samples - Rec.interaction_count

\* C19 as stated: in every reachable state interaction_count is at most the
\* sample count, and the two differ by exactly the number of turns in which
\* generate_response or increment_interaction failed after the update.
C19_GapIsFailedTurns ==
    Created
      => /\ Rec.interaction_count <= Rec.estimate.samples
         /\ SampleGap = partialTurns

\* C19 amended: interaction_count is at most the sample count in every
\* state; the difference is the number of turns in which generate_response or
\* increment_interaction failed after the update, plus one while a turn whose
\* update has been applied has not returned (still running, or interrupted).
C19_GapIsUnfinishedTurns ==
    Created
      => /\ Rec.interaction_count <= Rec.estimate.samples
         /\ SampleGap = partialTurns + (IF UpdateOutstanding THEN 1 ELSE 0)

\* C19 witness: one turn completed, one lost its increment to a failure, and a
\* third has applied its update and is about to generate the response.
C19_Witness ==
    /\ pc = "generate_response"
    /\ partialTurns = 1
    /\ Rec.interaction_count = 1
    /\ Rec.estimate.samples = 3

\* A step in which reading the line raised an exception other than
\* KeyboardInterrupt.
InputReadFailed == pc = "prompt" /\ lastCall' = "input" /\ ~lastOk'

\* A step of the KeyboardInterrupt handler taken outside end_conversation's
\* own end_session call.
Interrupted ==
    /\ pc \in LoopBody \ {"end_conversation"}
    /\ endIssued' = endIssued + 1

\* C20: once quit, exit or bye has been entered the loop terminates, and a
\* KeyboardInterrupt terminates it at once; a failing input read is caught:
\* the loop is back at the prompt with the same session id, nothing ended and
\* nothing stored, and the read can fail again, so a persistently failing
\* read keeps the loop running for ever.
C20_LoopTermination ==
    /\ (pc = "end_conversation") ~> LoopExited
    /\ [][Interrupted => LoopExited']_vars
    /\ [][InputReadFailed
            => /\ pc' = "prompt"
               /\ conversation_active'
               /\ session_id' = session_id
               /\ store' = store
               /\ disk' = disk
               /\ endIssued' = endIssued
               /\ Rec.state # "Ended"]_vars
    /\ [](pc = "prompt" => ENABLED InputFails)

\* C20 witness: after one completed turn the input read has failed and the
\* loop is at the prompt again with the session still active.
C20_Witness ==
    /\ pc = "prompt"
    /\ lastCall = "input"
    /\ ~lastOk
    /\ Rec.interaction_count = 1
    /\ Rec.state = "Active"
    /\ endIssued = 0

====
